---- MODULE Spec2Model ----
(***************************************************************************)
(* Model of the set-associative cache simulator of src/main.cpp: main's    *)
(* argument validation, the CacheSimulator object and the replay of a      *)
(* trace of loads and stores, one record at a time.                        *)
(***************************************************************************)
EXTENDS Integers, Sequences, FiniteSets, TLC

VARIABLES
    pc,                 \* position of main: "main", "run", "exit0", "exit1", "abort"
    args,               \* the six parsed command-line arguments
    printed,            \* TRUE once printStats has written the statistics
    num_sets, num_blocks_per_set, block_size,
    write_allocate, write_through, lru_eviction,
    set_bits, block_bits,
    sets,               \* sets[s][i]: block i of set s
    global_counter,
    total_loads, total_stores, load_hits, load_misses,
    store_hits, store_misses, total_cycles,
    install_stamp,      \* history: global_counter value when the block in sets[s][i] was installed
    last,               \* history: the access processed last, with the state before it
    prev,               \* history: summary of the access processed before it
    decoded             \* history: the addresses decoded at full 32-bit width, as bit sets

config == <<num_sets, num_blocks_per_set, block_size, write_allocate,
            write_through, lru_eviction, set_bits, block_bits>>

stats == <<total_loads, total_stores, load_hits, load_misses,
           store_hits, store_misses, total_cycles>>

vars == <<pc, args, printed, config, sets, global_counter, stats,
          install_stamp, last, prev, decoded>>

----------------------------------------------------------------------------
(* Bounds of the model *)

\* number of trace records read from stdin before the stream ends
MaxTrace == 4

\* argv[1], argv[2], argv[3] after atoi
SetsChoices == {1, 3, 4}
BlocksChoices == {1, 2}
BytesChoices == {2, 4, 16}

\* addresses of the trace records (0x00, 0x04, 0x40, 0x80)
Addresses == {0, 4, 64, 128}

\* operation characters of the trace records
Operations == {"l", "s"}

----------------------------------------------------------------------------
(* Arithmetic helpers *)

RECURSIVE Pow2(_)
Pow2(n) == IF n = 0 THEN 1 ELSE 2 * Pow2(n - 1)

\* (int) std::log2(x) for x >= 1
RECURSIVE Log2(_)
Log2(x) == IF x <= 1 THEN 0 ELSE 1 + Log2(x \div 2)

\* std::floor(std::log2(x)) != std::log2(x) is false
IsPowerOf2(x) == Pow2(Log2(x)) = x

\* unsigned x >> n
ShiftRight(x, n) == x \div Pow2(n)

\* unsigned x & y
RECURSIVE BitAnd(_, _)
BitAnd(x, y) ==
    IF x = 0 \/ y = 0 THEN 0
    ELSE (x % 2) * (y % 2) + 2 * BitAnd(x \div 2, y \div 2)

\* variant: the counter is read without being incremented
Incr_NotIncremented(c) == c

\* ++ on an unsigned int; it wraps at 2^32, which takes 2^32 hits or
\* allocations, far beyond MaxTrace records
Incr(c) == c + 1

\* INT_MAX of the int statistics fields
IntMax == 2147483647

\* a + b on int for b >= 0; an overflowing sum is undefined and leaves the
\* two's-complement value a + b - 2^32 in the field
AddInt(a, b) ==
    IF a > IntMax - b THEN (a - IntMax) + (b - IntMax) - 2 ELSE a + b

NotFound == -1

----------------------------------------------------------------------------
(* CacheBlock, CacheSet *)

CacheBlock == [valid |-> FALSE, dirty |-> FALSE, tag |-> 0, lru_count |-> 0]

CacheSet(associativity) == [i \in 0 .. associativity - 1 |-> CacheBlock]

Slots == 0 .. num_blocks_per_set - 1

SetIndexes == 0 .. num_sets - 1

----------------------------------------------------------------------------
(* Address decoding in processAccess *)

SetIndexOf(address) == BitAnd(ShiftRight(address, block_bits), Pow2(set_bits) - 1)

TagOf(address) == ShiftRight(address, set_bits + block_bits)

----------------------------------------------------------------------------
(* The scans over a set *)

\* first i with blocks[i].valid && blocks[i].tag == tag, scanning from i
RECURSIVE LookupFrom(_, _, _)
LookupFrom(set, tag, i) ==
    IF i >= num_blocks_per_set THEN NotFound
    ELSE IF set[i].valid /\ set[i].tag = tag THEN i
    ELSE LookupFrom(set, tag, i + 1)

\* variant: only slot 0 is compared
Lookup_FirstSlotOnly(set, tag) ==
    IF set[0].valid /\ set[0].tag = tag THEN 0 ELSE NotFound

\* variant: the tag comparison is missing
Lookup_TagNotCompared(set, tag) ==
    IF \E i \in DOMAIN set : set[i].valid
    THEN CHOOSE i \in DOMAIN set : set[i].valid /\ \A j \in DOMAIN set : set[j].valid => i <= j
    ELSE NotFound

Lookup(set, tag) == LookupFrom(set, tag, 0)

\* first i with !blocks[i].valid, scanning from i
RECURSIVE FreeSlotFrom(_, _)
FreeSlotFrom(set, i) ==
    IF i >= num_blocks_per_set THEN NotFound
    ELSE IF ~set[i].valid THEN i
    ELSE FreeSlotFrom(set, i + 1)

\* variant: the scan for an invalid slot is skipped
FreeSlot_NeverFound(set) == NotFound

FreeSlot(set) == FreeSlotFrom(set, 0)

\* the minimum scan of evictBlock, from slot i on
RECURSIVE MinScan(_, _, _, _)
MinScan(set, i, min_counter, evict_index) ==
    IF i >= num_blocks_per_set THEN evict_index
    ELSE IF set[i].lru_count < min_counter
         THEN MinScan(set, i + 1, set[i].lru_count, i)
         ELSE MinScan(set, i + 1, min_counter, evict_index)

\* the scan of the lru branch of evictBlock
LruVictim(set) == MinScan(set, 1, set[0].lru_count, 0)

\* variant: the fifo branch keeps evict_index = 0
FifoVictim_FirstSlot(set) == 0

\* the scan of the fifo branch of evictBlock: it reads lru_count as well
FifoVictim(set) == MinScan(set, 1, set[0].lru_count, 0)

\* variant: evict_index is never updated by the scan
EvictIndex_AlwaysFirst(set) == 0

\* evict_index as chosen by evictBlock; both branches run the same scan
EvictIndex(set) ==
    IF lru_eviction THEN LruVictim(set) ELSE FifoVictim(set)

----------------------------------------------------------------------------
(* Cycle costs *)

\* variant: the division by the word size is missing
MissPenalty_NotPerWord == 100 * block_size

\* 100 * (block_size / 4)
MissPenalty == 100 * (block_size \div 4)

\* variant: the dirty bit of the victim is not tested
WriteBackCost_DirtyNotTested(victim) ==
    IF ~write_through THEN 100 * (block_size \div 4) ELSE 0

\* write-back of the victim in evictBlock
WriteBackCost(victim) ==
    IF victim.dirty /\ ~write_through THEN 100 * (block_size \div 4) ELSE 0

\* extra cycles of a store hit
StoreHitCost == IF ~write_through THEN 0 ELSE 100

\* variant: the write to memory of a write-around miss is not charged
StoreMissCost_WriteAroundFree ==
    IF write_allocate
    THEN 100 * (block_size \div 4) + (IF ~write_through THEN 0 ELSE 100)
    ELSE 0

\* extra cycles of a store miss, without the write-back of a victim
StoreMissCost ==
    IF write_allocate
    THEN 100 * (block_size \div 4) + (IF ~write_through THEN 0 ELSE 100)
    ELSE 100

----------------------------------------------------------------------------
(* Block updates *)

\* variant: the tag is not stored
Install_TagNotStored(tag) ==
    [valid |-> TRUE, dirty |-> FALSE, tag |-> 0, lru_count |-> Incr(global_counter)]

\* valid = true; tag = tag; lru_count = ++global_counter; dirty = false
Install(tag) ==
    [valid |-> TRUE, dirty |-> FALSE, tag |-> tag, lru_count |-> Incr(global_counter)]

\* the block of a load hit
LoadHitBlock(b) == [b EXCEPT !.lru_count = Incr(global_counter)]

\* variant: the dirty bit is not set in write-back mode
StoreHitBlock_DirtyNotSet(b) == [b EXCEPT !.lru_count = Incr(global_counter)]

\* variant: the dirty bit is set in write-through mode too
StoreHitBlock_AlwaysDirty(b) ==
    [b EXCEPT !.lru_count = Incr(global_counter), !.dirty = TRUE]

\* the block of a store hit
StoreHitBlock(b) ==
    IF ~write_through
    THEN [b EXCEPT !.lru_count = Incr(global_counter), !.dirty = TRUE]
    ELSE [b EXCEPT !.lru_count = Incr(global_counter)]

\* allocateBlock with evictBlock: the new set, the slot written, whether a
\* valid block was overwritten, and the cycles added
AllocateBlock(set, tag) ==
    LET free == FreeSlot(set)
    IN  IF free # NotFound
        THEN [set |-> [set EXCEPT ![free] = Install(tag)], slot |-> free,
              evicted |-> FALSE, cycles |-> 0]
        ELSE LET evict_index == EvictIndex(set)
             IN  [set |-> [set EXCEPT ![evict_index] = Install(tag)],
                  slot |-> evict_index, evicted |-> TRUE,
                  cycles |-> WriteBackCost(set[evict_index])]

\* variant: the allocated block is not marked
MarkDirty_Skipped(set, tag) == set

\* variant: every valid block of the set is marked, not only the one of the tag
MarkDirty_WholeSet(set, tag) ==
    IF ~write_through
    THEN [i \in DOMAIN set |-> IF set[i].valid THEN [set[i] EXCEPT !.dirty = TRUE] ELSE set[i]]
    ELSE set

\* the loop of processStore that marks the allocated block dirty
MarkDirty(set, tag) ==
    LET i == Lookup(set, tag)
    IN  IF ~write_through /\ i # NotFound
        THEN [set EXCEPT ![i].dirty = TRUE]
        ELSE set

\* variant: load_misses is not incremented
LoadCounts_MissNotCounted(hit) ==
    [total |-> 1, hits |-> IF hit THEN 1 ELSE 0, misses |-> 0]

\* counter increments of a load: total_loads, load_hits, load_misses
LoadCounts(hit) ==
    [total |-> 1, hits |-> IF hit THEN 1 ELSE 0, misses |-> IF hit THEN 0 ELSE 1]

\* counter increments of a store: total_stores, store_hits, store_misses
StoreCounts(hit) ==
    [total |-> 1, hits |-> IF hit THEN 1 ELSE 0, misses |-> IF hit THEN 0 ELSE 1]

----------------------------------------------------------------------------
(* History records *)

Snapshot ==
    [sets |-> sets, global_counter |-> global_counter, install_stamp |-> install_stamp,
     total_loads |-> total_loads, total_stores |-> total_stores,
     load_hits |-> load_hits, load_misses |-> load_misses,
     store_hits |-> store_hits, store_misses |-> store_misses,
     total_cycles |-> total_cycles]

Summary(a) ==
    [done |-> a.done, op |-> a.op, address |-> a.address, set_index |-> a.set_index,
     tag |-> a.tag, hit |-> a.hit, slot |-> a.slot, allocated |-> a.allocated,
     evicted |-> a.evicted, victim_tag |-> a.victim_tag]

NoSnapshot ==
    [sets |-> <<>>, global_counter |-> 0, install_stamp |-> <<>>,
     total_loads |-> 0, total_stores |-> 0, load_hits |-> 0, load_misses |-> 0,
     store_hits |-> 0, store_misses |-> 0, total_cycles |-> 0]

NoAccess ==
    [done |-> FALSE, op |-> "l", address |-> 0, set_index |-> 0, tag |-> 0,
     hit |-> FALSE, slot |-> NotFound, allocated |-> FALSE, evicted |-> FALSE,
     victim_tag |-> 0, pre |-> NoSnapshot]

Access(op, address, set_index, tag, hit, slot, allocated, evicted) ==
    [done |-> TRUE, op |-> op, address |-> address, set_index |-> set_index,
     tag |-> tag, hit |-> hit, slot |-> slot, allocated |-> allocated,
     evicted |-> evicted,
     victim_tag |-> IF evicted THEN sets[set_index][slot].tag ELSE 0,
     pre |-> Snapshot]

----------------------------------------------------------------------------
(* Initial state: main entered with six arguments, nothing constructed *)

Entry(arguments) ==
    /\ pc = "main"
    /\ args \in arguments
    /\ printed = FALSE
    /\ num_sets = 0 /\ num_blocks_per_set = 0 /\ block_size = 0
    /\ write_allocate = FALSE /\ write_through = FALSE /\ lru_eviction = FALSE
    /\ set_bits = 0 /\ block_bits = 0
    /\ sets = <<>>
    /\ global_counter = 0
    /\ total_loads = 0 /\ total_stores = 0
    /\ load_hits = 0 /\ load_misses = 0
    /\ store_hits = 0 /\ store_misses = 0
    /\ total_cycles = 0
    /\ install_stamp = <<>>
    /\ last = NoAccess
    /\ prev = Summary(NoAccess)
    /\ decoded = <<>>

Init ==
    Entry([sets : SetsChoices, blocks : BlocksChoices, bytes : BytesChoices,
           write_alloc : BOOLEAN, write_thru : BOOLEAN, lru : BOOLEAN])

\* variant: the check of the invalid combination is missing
ValidArgs_CombinationNotChecked ==
    /\ IsPowerOf2(args.sets)
    /\ IsPowerOf2(args.blocks)
    /\ IsPowerOf2(args.bytes) /\ ~(args.bytes < 4)

\* the checks of main on the parsed arguments
ValidArgs ==
    /\ IsPowerOf2(args.sets)
    /\ IsPowerOf2(args.blocks)
    /\ IsPowerOf2(args.bytes) /\ ~(args.bytes < 4)
    /\ ~(~args.write_alloc /\ ~args.write_thru)

\* main up to the construction of the simulator, or to return 1
Main ==
    /\ pc = "main"
    /\ IF ValidArgs
       THEN /\ pc' = "run"
            /\ num_sets' = args.sets
            /\ num_blocks_per_set' = args.blocks
            /\ block_size' = args.bytes
            /\ write_allocate' = args.write_alloc
            /\ write_through' = args.write_thru
            /\ lru_eviction' = args.lru
            /\ set_bits' = Log2(args.sets)
            /\ block_bits' = Log2(args.bytes)
            /\ sets' = [s \in 0 .. args.sets - 1 |-> CacheSet(args.blocks)]
            /\ install_stamp' = [s \in 0 .. args.sets - 1 |-> [i \in 0 .. args.blocks - 1 |-> 0]]
       ELSE /\ pc' = "exit1"
            /\ UNCHANGED <<config, sets, install_stamp>>
    /\ UNCHANGED <<args, printed, global_counter, stats, last, prev, decoded>>

ProcessLoad(address, set_index, tag) ==
    LET set == sets[set_index]
        i == Lookup(set, tag)
        hit == i # NotFound
        a == AllocateBlock(set, tag)
        n == LoadCounts(hit)
    IN  /\ total_loads' = total_loads + n.total
        /\ load_hits' = load_hits + n.hits
        /\ load_misses' = load_misses + n.misses
        /\ UNCHANGED <<total_stores, store_hits, store_misses>>
        /\ IF hit
           THEN /\ total_cycles' = AddInt(total_cycles, 1)
                /\ sets' = [sets EXCEPT ![set_index][i] = LoadHitBlock(set[i])]
                /\ global_counter' = Incr(global_counter)
                /\ UNCHANGED install_stamp
                /\ last' = Access("l", address, set_index, tag, TRUE, i, FALSE, FALSE)
           ELSE /\ total_cycles' = AddInt(AddInt(AddInt(total_cycles, 1), MissPenalty), a.cycles)
                /\ sets' = [sets EXCEPT ![set_index] = a.set]
                /\ global_counter' = Incr(global_counter)
                /\ install_stamp' = [install_stamp EXCEPT ![set_index][a.slot] = Incr(global_counter)]
                /\ last' = Access("l", address, set_index, tag, FALSE, a.slot, TRUE, a.evicted)

ProcessStore(address, set_index, tag) ==
    LET set == sets[set_index]
        i == Lookup(set, tag)
        hit == i # NotFound
        a == AllocateBlock(set, tag)
        n == StoreCounts(hit)
    IN  /\ total_stores' = total_stores + n.total
        /\ store_hits' = store_hits + n.hits
        /\ store_misses' = store_misses + n.misses
        /\ UNCHANGED <<total_loads, load_hits, load_misses>>
        /\ IF hit
           THEN /\ total_cycles' = AddInt(AddInt(total_cycles, 1), StoreHitCost)
                /\ sets' = [sets EXCEPT ![set_index][i] = StoreHitBlock(set[i])]
                /\ global_counter' = Incr(global_counter)
                /\ UNCHANGED install_stamp
                /\ last' = Access("s", address, set_index, tag, TRUE, i, FALSE, FALSE)
           ELSE IF write_allocate
           THEN /\ total_cycles' = AddInt(AddInt(AddInt(total_cycles, 1), StoreMissCost), a.cycles)
                /\ sets' = [sets EXCEPT ![set_index] = MarkDirty(a.set, tag)]
                /\ global_counter' = Incr(global_counter)
                /\ install_stamp' = [install_stamp EXCEPT ![set_index][a.slot] = Incr(global_counter)]
                /\ last' = Access("s", address, set_index, tag, FALSE, a.slot, TRUE, a.evicted)
           ELSE /\ total_cycles' = AddInt(AddInt(total_cycles, 1), StoreMissCost)
                /\ UNCHANGED <<sets, global_counter, install_stamp>>
                /\ last' = Access("s", address, set_index, tag, FALSE, NotFound, FALSE, FALSE)

\* one iteration of main's read loop: a record is read and processed. The
\* cycle additions are positive, so total_cycles decreases exactly when one
\* of them overflowed int: the build then either keeps the wrapped value or,
\* built to trap on signed overflow, aborts
ProcessAccess(operation, address) ==
    /\ pc = "run"
    /\ total_loads + total_stores < MaxTrace
    /\ IF operation = "l"
       THEN ProcessLoad(address, SetIndexOf(address), TagOf(address))
       ELSE ProcessStore(address, SetIndexOf(address), TagOf(address))
    /\ prev' = Summary(last)
    /\ pc' \in (IF total_cycles' < total_cycles THEN {"run", "abort"} ELSE {"run"})
    /\ UNCHANGED <<args, printed, config, decoded>>

\* the stream ends: printStats and return 0
PrintStats ==
    /\ pc = "run"
    /\ pc' = "exit0"
    /\ printed' = TRUE
    /\ UNCHANGED <<args, config, sets, global_counter, stats, install_stamp, last, prev, decoded>>

Next ==
    \/ Main
    \/ \E operation \in Operations, address \in Addresses : ProcessAccess(operation, address)
    \/ PrintStats

Spec == Init /\ [][Next]_vars

----------------------------------------------------------------------------
(* Replay of a load-only trace that alternates between two addresses of the *)
(* same set and of different tags                                           *)

AlternateLoad(address) ==
    /\ last.done => /\ address # last.address
                    /\ SetIndexOf(address) = last.set_index
                    /\ TagOf(address) # last.tag
    /\ prev.done => address = prev.address
    /\ ProcessAccess("l", address)

NextAlternate ==
    \/ Main
    \/ \E address \in Addresses : AlternateLoad(address)
    \/ PrintStats

SpecAlternate == Init /\ [][NextAlternate]_vars

----------------------------------------------------------------------------
(* Replay with large blocks. 100 * (block_size / 4) fits an int for blocks  *)
(* of up to 2^26 bytes; larger blocks overflow in the product itself and    *)
(* are not modelled.                                                        *)

LargeBytes == {Pow2(25), Pow2(26)}

\* 0x0, 0x4000000, 0x8000000, 0x10000000
LargeAddresses == {0, Pow2(26), Pow2(27), Pow2(28)}

InitLarge ==
    Entry([sets : {1, 4}, blocks : BlocksChoices, bytes : LargeBytes,
           write_alloc : BOOLEAN, write_thru : BOOLEAN, lru : BOOLEAN])

NextLarge ==
    \/ Main
    \/ \E operation \in Operations, address \in LargeAddresses :
           ProcessAccess(operation, address)
    \/ PrintStats

SpecLarge == InitLarge /\ [][NextLarge]_vars

----------------------------------------------------------------------------
(* The address decoding of processAccess at the full width of unsigned int. *)
(* A 32-bit word is the set of the positions of its 1 bits, bit 0 the       *)
(* lowest.                                                                  *)

WordBits == 32

\* the words 0x00000000, 0x00000010, 0x00000014, 0x00000040, 0x40000000,
\* 0x80000000, 0xFFFFFFFF, 0xDEADBEEF, 0x12345678, 0x7FFFFFFF
DecodeAddresses ==
    {{},
     {4},
     {2, 4},
     {6},
     {30},
     {31},
     {0, 1, 2, 3, 4, 5, 6, 7, 8, 9, 10, 11, 12, 13, 14, 15, 16, 17, 18, 19, 20, 21, 22, 23, 24, 25, 26, 27, 28, 29, 30, 31},
     {0, 1, 2, 3, 5, 6, 7, 9, 10, 11, 12, 13, 15, 16, 18, 19, 21, 23, 25, 26, 27, 28, 30, 31},
     {3, 4, 5, 6, 9, 10, 12, 14, 18, 20, 21, 25, 28},
     {0, 1, 2, 3, 4, 5, 6, 7, 8, 9, 10, 11, 12, 13, 14, 15, 16, 17, 18, 19, 20, 21, 22, 23, 24, 25, 26, 27, 28, 29, 30}}

\* num_sets and block_size of the decoded geometries: every power of two an
\* int holds is accepted by main
DecodeSets == {1, 4, Pow2(10), Pow2(28)}

DecodeBytes == {4, 16, Pow2(20), Pow2(30)}

\* w >> n for 0 <= n < 32
ShrWord(w, n) == {i - n : i \in {j \in w : j >= n}}

\* w >> n as the builds produce it: a count of 32 or more is undefined, a
\* shifter that masks the count to five bits yields w >> (n % 32), one that
\* does not yields 0
ShrOutcomes(w, n) ==
    IF n < WordBits THEN {ShrWord(w, n)} ELSE {ShrWord(w, n % WordBits), {}}

\* (1 << k) - 1 converted to unsigned, for 0 <= k <= 30
MaskWord(k) == 0 .. k - 1

\* w & m
AndWord(w, m) == w \cap m

\* set_index and tag of one call of processAccess
DecodeOutcomes(address) ==
    {[address |-> address,
      set_index |-> AndWord(ShrWord(address, block_bits), MaskWord(set_bits)),
      tag |-> t] : t \in ShrOutcomes(address, set_bits + block_bits)}

\* a simulator constructed for one geometry; its storage is left out
DecodeInit ==
    /\ pc = "run"
    /\ args \in [sets : DecodeSets, blocks : {1}, bytes : DecodeBytes,
                 write_alloc : {TRUE}, write_thru : {TRUE}, lru : {TRUE}]
    /\ printed = FALSE
    /\ num_sets = args.sets /\ num_blocks_per_set = args.blocks
    /\ block_size = args.bytes
    /\ write_allocate = args.write_alloc /\ write_through = args.write_thru
    /\ lru_eviction = args.lru
    /\ set_bits = Log2(args.sets) /\ block_bits = Log2(args.bytes)
    /\ sets = <<>>
    /\ global_counter = 0
    /\ total_loads = 0 /\ total_stores = 0
    /\ load_hits = 0 /\ load_misses = 0
    /\ store_hits = 0 /\ store_misses = 0
    /\ total_cycles = 0
    /\ install_stamp = <<>>
    /\ last = NoAccess
    /\ prev = Summary(NoAccess)
    /\ decoded = <<>>

\* the first two statements of processAccess, for up to two addresses
DecodeAccess(address) ==
    /\ pc = "run"
    /\ Len(decoded) < 2
    /\ \E d \in DecodeOutcomes(address) : decoded' = Append(decoded, d)
    /\ UNCHANGED <<pc, args, printed, config, sets, global_counter, stats,
                   install_stamp, last, prev>>

NextDecode == \E address \in DecodeAddresses : DecodeAccess(address)

SpecDecode == DecodeInit /\ [][NextDecode]_vars

----------------------------------------------------------------------------
(* Helpers of the properties *)

TypeOK ==
    /\ pc \in {"main", "run", "exit0", "exit1", "abort"}
    /\ global_counter \in Nat
    /\ total_loads + total_stores <= MaxTrace

\* the state before the last access
Pre == last.pre

\* cycles added by the last access
CyclesAdded == total_cycles - Pre.total_cycles

\* the block the last access hit or wrote, before and after the access
BlockBefore == Pre.sets[last.set_index][last.slot]

BlockAfter == sets[last.set_index][last.slot]

\* the write-back cost the cost table prescribes for the last access
ExpectedWriteBack ==
    IF last.evicted /\ BlockBefore.dirty /\ ~write_through
    THEN 100 * (block_size \div 4)
    ELSE 0

\* every block except the one the last access hit or wrote is as before
OtherBlocksUnchanged ==
    \A s \in SetIndexes : \A i \in Slots :
        (s # last.set_index \/ i # last.slot) => sets[s][i] = Pre.sets[s][i]

\* the slots of the victim's set that hold the minimum of stamp f
MinSlots(f) == {i \in Slots : \A j \in Slots : f[i] <= f[j]}

LowestOf(S) == CHOOSE i \in S : \A j \in S : i <= j

----------------------------------------------------------------------------
(* C1 *)

\* C1: in every reachable state totalLoads = loadHits + loadMisses and
\* totalStores = storeHits + storeMisses.
C1_StatsBalance ==
    /\ total_loads = load_hits + load_misses
    /\ total_stores = store_hits + store_misses

C1_Witness ==
    /\ load_hits > 0 /\ load_misses > 0
    /\ store_hits > 0 /\ store_misses > 0

----------------------------------------------------------------------------
(* C2 *)

\* C2: in every reachable state every set has exactly `associativity` slots,
\* so at most that many valid blocks, and no two valid blocks of a set have
\* the same tag.
C2_NoDuplicateResidency ==
    pc # "main" /\ pc # "exit1" =>
        \A s \in SetIndexes :
            /\ DOMAIN sets[s] = Slots
            /\ Cardinality({i \in Slots : sets[s][i].valid}) <= num_blocks_per_set
            /\ \A i \in Slots : \A j \in Slots :
                   (i # j /\ sets[s][i].valid /\ sets[s][j].valid)
                       => sets[s][i].tag # sets[s][j].tag

\* a full two-way set whose block was replaced by an eviction
C2_Witness ==
    /\ last.done /\ last.evicted
    /\ num_blocks_per_set = 2
    /\ \A i \in Slots : sets[last.set_index][i].valid

----------------------------------------------------------------------------
(* C3 *)

\* C3 as stated: an access to address A that misses, followed at once by an
\* access to A, makes the second access a hit.
C3_Original ==
    (prev.done /\ ~prev.hit /\ last.done /\ last.address = prev.address)
        => last.hit

\* C3 amended: an access to address A that misses and allocates (a load miss,
\* or a store miss under write-allocate), followed at once by an access to
\* A, makes the second access a hit.
C3_RepeatAfterMissHits ==
    (/\ prev.done /\ ~prev.hit
     /\ (prev.op = "l" \/ write_allocate)
     /\ last.done /\ last.address = prev.address)
        => last.hit

C3_Witness ==
    /\ prev.done /\ ~prev.hit /\ prev.op = "s" /\ write_allocate
    /\ last.done /\ last.address = prev.address /\ last.hit

----------------------------------------------------------------------------
(* C4 *)

\* the last access met, in a direct-mapped cache, a resident block of
\* another tag in its set
C4_Conflict ==
    /\ last.done
    /\ num_blocks_per_set = 1
    /\ Pre.sets[last.set_index][0].valid
    /\ Pre.sets[last.set_index][0].tag # last.tag

\* the resident block was replaced by the block of the last access
C4_Replaced ==
    /\ sets[last.set_index][0].valid
    /\ sets[last.set_index][0].tag = last.tag
    /\ Lookup(sets[last.set_index], Pre.sets[last.set_index][0].tag) = NotFound

\* C4 as stated: direct-mapped, any access (load or store) to an address of
\* the same set and another tag evicts the resident block.
C4_Original == C4_Conflict => C4_Replaced

\* C4 amended: direct-mapped, a load, or a store under write-allocate, to an
\* address of the same set and another tag evicts the resident block: the
\* slot then holds the new tag, and the next access to the evicted block is
\* a miss.
C4_DirectMappedEvicts ==
    /\ (C4_Conflict /\ (last.op = "l" \/ write_allocate))
           => (C4_Replaced /\ last.evicted /\ last.slot = 0)
    /\ (/\ num_blocks_per_set = 1
        /\ prev.done /\ prev.evicted
        /\ last.done
        /\ last.set_index = prev.set_index
        /\ last.tag = prev.victim_tag)
           => ~last.hit

\* A1 accessed once, evicted by A2, then accessed again and missing
C4_Witness ==
    /\ num_blocks_per_set = 1
    /\ total_loads + total_stores = 3
    /\ prev.done /\ prev.evicted
    /\ last.done /\ last.set_index = prev.set_index
    /\ last.tag = prev.victim_tag /\ ~last.hit

----------------------------------------------------------------------------
(* C5 *)

\* C5: with FIFO, the victim of an allocation into a full set is the slot
\* whose block was installed earliest, whatever hits it had since.
C5_FifoEvictsOldestInstall ==
    (last.done /\ last.evicted /\ ~lru_eviction)
        => last.slot = LowestOf(MinSlots(Pre.install_stamp[last.set_index]))

----------------------------------------------------------------------------
(* C6 *)

\* C6: with LRU, the victim of an allocation into a full set is the lowest
\* slot among those of minimum recency stamp, and a block's stamp is the
\* global counter value of its most recent hit or allocation: a hit or an
\* allocation stamps its block with the incremented counter and no access
\* changes any other stamp.
C6_LruEvictsMinStamp ==
    /\ (last.done /\ last.evicted /\ lru_eviction)
           => last.slot = LowestOf(MinSlots(
                  [i \in Slots |-> Pre.sets[last.set_index][i].lru_count]))
    /\ (last.done /\ (last.hit \/ last.allocated))
           => /\ global_counter = Pre.global_counter + 1
              /\ BlockAfter.lru_count = global_counter
              /\ \A s \in SetIndexes : \A i \in Slots :
                     (s # last.set_index \/ i # last.slot)
                         => sets[s][i].lru_count = Pre.sets[s][i].lru_count
    /\ (last.done /\ ~last.hit /\ ~last.allocated)
           => /\ global_counter = Pre.global_counter
              /\ \A s \in SetIndexes : \A i \in Slots :
                     sets[s][i].lru_count = Pre.sets[s][i].lru_count

\* the victim is slot 1 because slot 0, installed first, was hit since
C6_Witness ==
    /\ last.done /\ last.evicted /\ lru_eviction
    /\ num_blocks_per_set = 2
    /\ last.slot = 1
    /\ Pre.install_stamp[last.set_index][0] < Pre.install_stamp[last.set_index][1]
    /\ Pre.sets[last.set_index][0].lru_count > Pre.sets[last.set_index][1].lru_count

----------------------------------------------------------------------------
(* C7 *)

\* cycles of the last access apart from a write-back
C7_BaseCost ==
    1 + 100 * (block_size \div 4)
      + (IF last.op = "s" /\ write_through THEN 100 ELSE 0)

\* C7: an allocation that overwrites a valid block adds the write-back cost
\* 100 * (blockSizeBytes / 4) exactly when the victim is dirty and the mode
\* is write-back; a block installed by a store miss under write-allocate +
\* write-back and evicted by the next access charges that cost to the
\* evicting access.
C7_WriteBackCharged ==
    /\ (last.done /\ last.evicted)
           => /\ (BlockBefore.dirty /\ ~write_through)
                     => CyclesAdded = C7_BaseCost + 100 * (block_size \div 4)
              /\ ~(BlockBefore.dirty /\ ~write_through)
                     => CyclesAdded = C7_BaseCost
    /\ (/\ prev.done /\ prev.op = "s" /\ ~prev.hit /\ prev.allocated
        /\ ~write_through
        /\ last.done /\ last.evicted
        /\ last.set_index = prev.set_index /\ last.slot = prev.slot)
           => CyclesAdded = C7_BaseCost + 100 * (block_size \div 4)

C7_Witness ==
    /\ prev.done /\ prev.op = "s" /\ ~prev.hit /\ prev.allocated
    /\ write_allocate /\ ~write_through
    /\ last.done /\ last.evicted
    /\ last.set_index = prev.set_index /\ last.slot = prev.slot
    /\ block_size = 16
    /\ CyclesAdded = 801

----------------------------------------------------------------------------
(* C8 *)

\* tag, valid and dirty bits of every block are as before the last access
C8_ContentsUnchanged ==
    \A s \in SetIndexes : \A i \in Slots :
        /\ sets[s][i].tag = Pre.sets[s][i].tag
        /\ sets[s][i].valid = Pre.sets[s][i].valid
        /\ sets[s][i].dirty = Pre.sets[s][i].dirty

\* C8: a load adds 1 to totalLoads; a hit adds 1 to loadHits and 1 cycle,
\* refreshes the hit block's stamp and changes no tag, valid or dirty bit; a
\* miss adds 1 to loadMisses and 1 + 100 * (blockSizeBytes / 4) cycles, plus
\* the write-back cost only for a dirty victim in write-back mode, and
\* leaves the tag resident and clean. With 4 sets, 1 block per set and 16
\* bytes per block, load 0x00, load 0x00 ends with loadHits = 1,
\* loadMisses = 1, totalCycles = 402.
C8_LoadEffect ==
    /\ (last.done /\ last.op = "l")
           => /\ total_loads = Pre.total_loads + 1
              /\ total_stores = Pre.total_stores
              /\ store_hits = Pre.store_hits
              /\ store_misses = Pre.store_misses
    /\ (last.done /\ last.op = "l" /\ last.hit)
           => /\ load_hits = Pre.load_hits + 1
              /\ load_misses = Pre.load_misses
              /\ CyclesAdded = 1
              /\ global_counter = Pre.global_counter + 1
              /\ BlockAfter.lru_count = global_counter
              /\ C8_ContentsUnchanged
    /\ (last.done /\ last.op = "l" /\ ~last.hit)
           => /\ load_misses = Pre.load_misses + 1
              /\ load_hits = Pre.load_hits
              /\ CyclesAdded = 1 + 100 * (block_size \div 4) + ExpectedWriteBack
              /\ \E i \in Slots :
                     /\ sets[last.set_index][i].valid
                     /\ sets[last.set_index][i].tag = last.tag
                     /\ ~sets[last.set_index][i].dirty
    /\ (/\ num_sets = 4 /\ num_blocks_per_set = 1 /\ block_size = 16
        /\ total_loads = 2 /\ total_stores = 0
        /\ prev.address = 0 /\ last.address = 0)
           => /\ load_hits = 1 /\ load_misses = 1
              /\ total_cycles = 402

C8_Witness ==
    /\ num_sets = 4 /\ num_blocks_per_set = 1 /\ block_size = 16
    /\ total_loads = 2 /\ total_stores = 0
    /\ prev.done /\ prev.address = 0 /\ ~prev.hit
    /\ last.done /\ last.address = 0 /\ last.hit
    /\ total_cycles = 402

----------------------------------------------------------------------------
(* C9 *)

\* C9: a store hit adds 1 to totalStores and storeHits and refreshes the
\* hit block's stamp; in write-through mode it adds 1 + 100 cycles and does
\* not set the block dirty, in write-back mode it adds 1 cycle and leaves
\* the block dirty.
C9_StoreHitEffect ==
    (last.done /\ last.op = "s" /\ last.hit)
        => /\ total_stores = Pre.total_stores + 1
           /\ store_hits = Pre.store_hits + 1
           /\ store_misses = Pre.store_misses
           /\ global_counter = Pre.global_counter + 1
           /\ BlockAfter.lru_count = global_counter
           /\ BlockAfter.valid /\ BlockAfter.tag = last.tag
           /\ write_through
                  => /\ CyclesAdded = 1 + 100
                     /\ BlockAfter.dirty = BlockBefore.dirty
                     /\ ~BlockAfter.dirty
           /\ ~write_through
                  => /\ CyclesAdded = 1
                     /\ BlockAfter.dirty

\* a write-back store hit on a block that was clean
C9_Witness ==
    /\ last.done /\ last.op = "s" /\ last.hit
    /\ ~write_through
    /\ ~BlockBefore.dirty /\ BlockAfter.dirty

----------------------------------------------------------------------------
(* C10 *)

\* C10: a store miss under write-allocate adds 1 to totalStores and
\* storeMisses and 1 + 100 * (blockSizeBytes / 4) cycles, plus the
\* write-back cost only for a dirty victim in write-back mode, and installs
\* the tag; under write-through it adds 100 more cycles and the installed
\* block is clean; under write-back it adds nothing more and the installed
\* block, and no other, is marked dirty.
C10_StoreMissAllocate ==
    (last.done /\ last.op = "s" /\ ~last.hit /\ write_allocate)
        => /\ total_stores = Pre.total_stores + 1
           /\ store_misses = Pre.store_misses + 1
           /\ store_hits = Pre.store_hits
           /\ last.allocated
           /\ BlockAfter.valid /\ BlockAfter.tag = last.tag
           /\ Lookup(sets[last.set_index], last.tag) = last.slot
           /\ OtherBlocksUnchanged
           /\ write_through
                  => /\ CyclesAdded = 1 + 100 * (block_size \div 4)
                                        + ExpectedWriteBack + 100
                     /\ ~BlockAfter.dirty
           /\ ~write_through
                  => /\ CyclesAdded = 1 + 100 * (block_size \div 4)
                                        + ExpectedWriteBack
                     /\ BlockAfter.dirty

\* a write-back store miss that evicts a dirty block beside a clean one
C10_Witness ==
    /\ last.done /\ last.op = "s" /\ ~last.hit
    /\ write_allocate /\ ~write_through
    /\ last.evicted /\ BlockBefore.dirty
    /\ num_blocks_per_set = 2
    /\ \E i \in Slots : i # last.slot /\ ~sets[last.set_index][i].dirty
    /\ BlockAfter.dirty

----------------------------------------------------------------------------
(* C11 *)

\* C11: a store miss under no-write-allocate adds 1 to totalStores and
\* storeMisses and exactly 1 + 100 cycles, and leaves every block of every
\* set (valid, dirty, tag, stamp) and the global counter as they were.
C11_WriteAroundMiss ==
    (last.done /\ last.op = "s" /\ ~last.hit /\ ~write_allocate)
        => /\ total_stores = Pre.total_stores + 1
           /\ store_misses = Pre.store_misses + 1
           /\ store_hits = Pre.store_hits
           /\ total_loads = Pre.total_loads
           /\ load_hits = Pre.load_hits
           /\ load_misses = Pre.load_misses
           /\ CyclesAdded = 1 + 100
           /\ sets = Pre.sets
           /\ global_counter = Pre.global_counter
           /\ ~last.allocated /\ ~last.evicted

\* a write-around miss in a set that already holds a block of another tag
C11_Witness ==
    /\ last.done /\ last.op = "s" /\ ~last.hit /\ ~write_allocate
    /\ \E i \in Slots : sets[last.set_index][i].valid
    /\ Lookup(sets[last.set_index], last.tag) = NotFound
    /\ block_size = 16

----------------------------------------------------------------------------
(* C12 *)

\* tag << n and setIndex << n without loss of high bits
C12_ShiftLeft(w, n) == {i + n : i \in w}

\* address mod 2^blockOffsetBits
C12_Offset(address) == address \cap (0 .. block_bits - 1)

\* (tag << (setIndexBits + blockOffsetBits)) | (setIndex << blockOffsetBits)
\* | blockOffset
C12_Reassembled(d) ==
    C12_ShiftLeft(d.tag, set_bits + block_bits)
        \cup C12_ShiftLeft(d.set_index, block_bits)
        \cup C12_Offset(d.address)

\* two addresses lie in the same block
C12_SameBlock(a, b) == ShrWord(a, block_bits) = ShrWord(b, block_bits)

\* the decoder's results for the geometries with at most `limit` index and
\* offset bits
C12_RoundTrip(limit) ==
    set_bits + block_bits <= limit =>
        /\ \A k \in DOMAIN decoded : C12_Reassembled(decoded[k]) = decoded[k].address
        /\ Len(decoded) = 2 =>
               ((decoded[1].tag = decoded[2].tag
                    /\ decoded[1].set_index = decoded[2].set_index)
                <=> C12_SameBlock(decoded[1].address, decoded[2].address))

\* C12: for every 32-bit address A and every geometry with setIndexBits +
\* blockOffsetBits <= 32, setIndex, tag and blockOffset reassemble to
\* exactly A, and two addresses get the same (tag, setIndex) exactly when
\* they lie in the same block.
C12_DecodeRoundTrip == C12_RoundTrip(32)

\* C12 restricted to setIndexBits + blockOffsetBits < 32, where the shift
\* count of the tag is below the width of the word
C12_RoundTripBelow32 == C12_RoundTrip(31)

----------------------------------------------------------------------------
(* C13 *)

\* C13: direct-mapped, a load-only trace alternating between two addresses
\* of the same set and of different tags misses on every access: after n
\* loads loadHits = 0, loadMisses = n and totalCycles = n * (1 + 100 *
\* (blockSizeBytes / 4)); with 4 sets and 16-byte blocks the trace load
\* 0x00, load 0x40, load 0x00 gives totalLoads = 3, loadHits = 0,
\* loadMisses = 3, totalCycles = 1203.
C13_AlternatingLoadsMiss ==
    /\ (pc \in {"run", "exit0"} /\ num_blocks_per_set = 1)
           => /\ total_stores = 0
              /\ load_hits = 0
              /\ load_misses = total_loads
              /\ total_cycles = total_loads * (1 + 100 * (block_size \div 4))
              /\ last.done => ~last.hit
    /\ (/\ num_sets = 4 /\ num_blocks_per_set = 1 /\ block_size = 16
        /\ load_hits + load_misses = 3
        /\ prev.address = 64 /\ last.address = 0)
           => /\ total_loads = 3 /\ load_hits = 0 /\ load_misses = 3
              /\ total_cycles = 1203

\* the trace load 0x00, load 0x40, load 0x00 on 4 sets of one 16-byte block
C13_Witness ==
    /\ num_sets = 4 /\ num_blocks_per_set = 1 /\ block_size = 16
    /\ total_loads = 3 /\ load_misses = 3
    /\ prev.done /\ prev.address = 64 /\ prev.evicted
    /\ last.done /\ last.address = 0 /\ last.evicted
    /\ total_cycles = 1203

----------------------------------------------------------------------------
(* C14 *)

\* C14: a dirty bit goes from clear to set only in the block of a store hit
\* in write-back mode or of a store miss under write-allocate + write-back;
\* so in write-through mode no block is ever dirty, a load never makes a
\* block dirty, and every dirty block is valid.
C14_DirtyOnlyByWriteBackStore ==
    pc \in {"run", "exit0"} =>
        /\ last.done =>
               \A s \in SetIndexes : \A i \in Slots :
                   (~Pre.sets[s][i].dirty /\ sets[s][i].dirty)
                       => /\ last.op = "s"
                          /\ ~write_through
                          /\ last.hit \/ write_allocate
                          /\ s = last.set_index /\ i = last.slot
        /\ write_through => \A s \in SetIndexes : \A i \in Slots : ~sets[s][i].dirty
        /\ \A s \in SetIndexes : \A i \in Slots : sets[s][i].dirty => sets[s][i].valid

\* a write-back store miss dirties the block it installs in a free slot,
\* beside a valid clean block
C14_Witness ==
    /\ last.done /\ last.op = "s" /\ ~last.hit
    /\ write_allocate /\ ~write_through
    /\ ~last.evicted
    /\ ~BlockBefore.dirty /\ BlockAfter.dirty
    /\ \E i \in Slots : /\ i # last.slot
                        /\ sets[last.set_index][i].valid
                        /\ ~sets[last.set_index][i].dirty

----------------------------------------------------------------------------
(* C15 *)

\* C15: no access leaves any of the seven statistics counters smaller than
\* before it, and totalCycles grows by at least 1 on every access.
C15_CountersMonotonic ==
    (last.done /\ pc # "abort")
        => /\ total_loads >= Pre.total_loads
           /\ total_stores >= Pre.total_stores
           /\ load_hits >= Pre.load_hits
           /\ load_misses >= Pre.load_misses
           /\ store_hits >= Pre.store_hits
           /\ store_misses >= Pre.store_misses
           /\ total_cycles >= Pre.total_cycles + 1

----------------------------------------------------------------------------
(* C16 *)

\* the geometry arguments pass main's checks
C16_GeometryAccepted ==
    /\ args.sets \in {1, 2, 4}
    /\ args.blocks \in {1, 2}
    /\ args.bytes \in {4, 8, 16}

\* C16: no-write-allocate with write-back is rejected before any trace
\* record is processed: main ends with exit code 1, the simulator is not
\* constructed, no record is applied and no statistics are printed; every
\* other combination of the two write policies is accepted.
C16_InvalidCombinationRejected ==
    pc # "main" =>
        /\ (~args.write_alloc /\ ~args.write_thru)
               => /\ pc = "exit1"
                  /\ ~printed
                  /\ sets = <<>> /\ num_sets = 0
                  /\ ~last.done
                  /\ total_loads = 0 /\ total_stores = 0 /\ total_cycles = 0
        /\ (C16_GeometryAccepted /\ (args.write_alloc \/ args.write_thru))
               => /\ pc # "exit1"
                  /\ sets # <<>> /\ num_sets = args.sets
                  /\ write_allocate = args.write_alloc
                  /\ write_through = args.write_thru

\* a valid geometry rejected for its write policies alone
C16_Witness ==
    /\ pc = "exit1"
    /\ C16_GeometryAccepted
    /\ ~args.write_alloc /\ ~args.write_thru
    /\ ~printed

----------------------------------------------------------------------------
(* C17 *)

\* the invalid slots of the addressed set before the last access
C17_FreeBefore == {i \in Slots : ~Pre.sets[last.set_index][i].valid}

\* C17: an allocation overwrites a valid block only when every slot of the
\* addressed set is valid; with an invalid slot the tag is installed in the
\* lowest invalid slot (valid, stamped, dirty cleared by the allocation and
\* set again only by the write-back store that caused it), no resident
\* block is removed and no write-back cost is charged.
C17_AllocatePrefersFreeSlot ==
    /\ (last.done /\ last.allocated /\ C17_FreeBefore # {})
           => /\ last.slot = LowestOf(C17_FreeBefore)
              /\ ~last.evicted
              /\ BlockAfter.valid /\ BlockAfter.tag = last.tag
              /\ global_counter = Pre.global_counter + 1
              /\ BlockAfter.lru_count = global_counter
              /\ BlockAfter.dirty <=> (last.op = "s" /\ ~write_through)
              /\ OtherBlocksUnchanged
              /\ CyclesAdded = 1 + 100 * (block_size \div 4)
                                 + (IF last.op = "s" /\ write_through THEN 100 ELSE 0)
    /\ (last.done /\ last.allocated /\ BlockBefore.valid)
           => /\ last.evicted
              /\ C17_FreeBefore = {}

\* a load installs its block in slot 1 beside the resident block of slot 0
C17_Witness ==
    /\ last.done /\ last.op = "l" /\ last.allocated /\ ~last.evicted
    /\ last.slot = 1
    /\ sets[last.set_index][0].valid
    /\ sets[last.set_index][0] = Pre.sets[last.set_index][0]

----------------------------------------------------------------------------
(* C18 *)

\* C18: the FIFO configuration behaves as the LRU configuration. The
\* eviction policy is read only where evictBlock chooses evict_index, and
\* the two runs of a trace start from the same empty cache; so they agree
\* after every access, in contents and in the seven statistics, if in every
\* reachable state of either configuration the fifo branch and the lru
\* branch choose the same victim in every full set, and the eviction just
\* made chose that victim.
C18_FifoSameAsLru ==
    pc \in {"run", "exit0"} =>
        /\ \A s \in SetIndexes :
               (\A i \in Slots : sets[s][i].valid)
                   => FifoVictim(sets[s]) = LruVictim(sets[s])
        /\ (last.done /\ last.evicted)
               => /\ last.slot = FifoVictim(Pre.sets[last.set_index])
                  /\ last.slot = LruVictim(Pre.sets[last.set_index])

\* under fifo the block installed first was hit and the block installed
\* second is evicted, as under lru
C18_Witness ==
    /\ ~lru_eviction
    /\ last.done /\ last.evicted
    /\ num_blocks_per_set = 2
    /\ last.slot = 1
    /\ Pre.install_stamp[last.set_index][0] < Pre.install_stamp[last.set_index][1]
    /\ sets[last.set_index][0].lru_count > install_stamp[last.set_index][0]

----------------------------------------------------------------------------
(* C19 *)

\* the valid blocks of the cache, as (set, slot) pairs
C19_ValidBlocks == {p \in SetIndexes \X Slots : sets[p[1]][p[2]].valid}

\* C19: the global counter grows by exactly 1 on every hit and every
\* allocation and is otherwise unchanged; every valid block's stamp lies in
\* 1 .. global_counter, no two valid blocks of the cache carry the same
\* stamp, and the minimum-stamp slot of a full set is unique.
C19_StampsUnique ==
    pc \in {"run", "exit0"} =>
        /\ last.done =>
               global_counter = Pre.global_counter
                                    + (IF last.hit \/ last.allocated THEN 1 ELSE 0)
        /\ \A p \in C19_ValidBlocks :
               sets[p[1]][p[2]].lru_count \in 1 .. global_counter
        /\ \A p \in C19_ValidBlocks : \A q \in C19_ValidBlocks :
               p # q => sets[p[1]][p[2]].lru_count # sets[q[1]][q[2]].lru_count
        /\ \A s \in SetIndexes :
               (\A i \in Slots : sets[s][i].valid)
                   => Cardinality(MinSlots([i \in Slots |-> sets[s][i].lru_count])) = 1

\* a write-around miss leaves the counter alone beside a full two-way set
\* and a block of another set
C19_Witness ==
    /\ last.done /\ ~last.hit /\ ~last.allocated
    /\ global_counter = Pre.global_counter
    /\ num_blocks_per_set = 2
    /\ Cardinality(C19_ValidBlocks) >= 2
    /\ \E s \in SetIndexes : \A i \in Slots : sets[s][i].valid

----------------------------------------------------------------------------
(* C20 *)

\* C20: an access changes storage only in the set its address selects, and
\* there at most one block: every other block keeps its valid bit, dirty
\* bit, tag and stamp; a valid block never becomes invalid.
C20_OneBlockOfOneSet ==
    last.done =>
        /\ last.set_index = SetIndexOf(last.address)
        /\ last.set_index \in SetIndexes
        /\ DOMAIN sets = DOMAIN Pre.sets
        /\ \A s \in SetIndexes : \A i \in Slots :
               /\ (s # last.set_index \/ i # last.slot) => sets[s][i] = Pre.sets[s][i]
               /\ Pre.sets[s][i].valid => sets[s][i].valid

\* a write-back store changes one block of a full set while the other block
\* of the set and a block of another set stay as they were
C20_Witness ==
    /\ last.done /\ last.op = "s" /\ ~write_through
    /\ num_sets = 4 /\ num_blocks_per_set = 2
    /\ BlockAfter # BlockBefore
    /\ \E i \in Slots : i # last.slot /\ sets[last.set_index][i].valid
    /\ \E s \in SetIndexes : \E i \in Slots : s # last.set_index /\ sets[s][i].valid
====
